---- MODULE Spec2Model ----
(***************************************************************************)
(* Offline-first todo list of learn-next-pwa.                              *)
(*                                                                         *)
(* SpecSync  : OfflineStorage (IndexedDB), BackgroundSyncManager and the   *)
(*             OfflineTodoList component that drives them.                 *)
(* SpecCache : the TanStack Query hooks useTodos / useCreateTodo /         *)
(*             useUpdateTodo / useDeleteTodo over the 'todos' query.       *)
(***************************************************************************)
EXTENDS Integers, Sequences, FiniteSets, TLC

\* ------------------------------------------------------------------ bounds
MaxKey == 1       \* records ever added to the 'todos' object store
MaxSyncs == 2     \* sync passes ever admitted
NumSlots == 2     \* syncNow() invocations that can be suspended at once
MaxMuts == 1      \* mutate() calls ever made
MaxServer == 2    \* identifiers the remote API ever assigns
PassItems == 2    \* unsynced records a session starts with when a pass is studied
MaxItems == 2     \* records ever added when OfflineStorage is driven directly
MaxSends == 2     \* sendNotification() calls that reach webpush.sendNotification
MaxClock == 4     \* calls made when OfflineStorage is driven directly

Slots == 1..NumSlots
\* One mutation per hook can be pending: the control that calls mutateAsync is
\* disabled while its hook reports isPending.
Hooks == {"create", "update", "delete"}
Keys == 1..MaxKey
Titles == {"Buy milk"}
None == [none |-> TRUE]

\* Query data of ['todos']: undefined, or an array of Todo.
Undefined == [defined |-> FALSE, todos |-> <<>>]
Data(list) == [defined |-> TRUE, todos |-> list]
NoId == <<"none", 0>>

\* A call and the settlement of the promise it returned.
Call(op, id, data, out) == [op |-> op, id |-> id, data |-> data, out |-> out]

VARIABLES
    online,          \* navigator.onLine
    now,             \* Date.now()
    store,           \* object store 'todos': key -> record
    nextKey,         \* the store's autoIncrement key generator
    server,          \* records held by the remote API
    nextSid,         \* next identifier the remote API assigns
    syncInProgress,  \* BackgroundSyncManager.syncInProgress
    passes,          \* suspended syncNow() invocations, one per slot
    syncCount,       \* passes admitted so far
    isOnline,        \* OfflineTodoList state isOnline
    registered,      \* what syncManager.registerSync() set up at mount
    createdOnline,   \* a record was added while navigator.onLine (observation only)
    busyRefused,     \* a syncNow() call returned at 'Sync already in progress' (observation only)
    offlineRefused,  \* a syncNow() call returned at 'Offline, cannot sync' (observation only)
    hist,            \* history of each local record (observation only)
    hooks,           \* which useTodos module is mounted: "offline" or "basic"
    cache,           \* query data of ['todos']: Undefined or Data(list)
    fetch,           \* the in-flight fetch of the 'todos' query, or None
    muts,            \* mutations of useCreateTodo/useUpdateTodo/useDeleteTodo
    mutCount,        \* mutate() calls so far
    result,          \* how the last direct call of a method or server action settled
    subscription,    \* actions.ts: let subscription: PushSubscription | null
    sending,         \* webpush.sendNotification() calls of sendNotification, per slot
    pushCount        \* requests handed to webpush.sendNotification so far

\* actions.ts line 30: no subscription stored, nothing sent.
IdleSend == [pc |-> "idle", sub |-> None, status |-> 0]
NoPush ==
    /\ subscription = None
    /\ sending = [s \in 1..MaxSends |-> IdleSend]
    /\ pushCount = 0

mgr == <<syncInProgress, passes, syncCount, busyRefused, offlineRefused>>
api == <<server, nextSid>>
db == <<store, nextKey>>
ui == <<isOnline, registered, createdOnline, hist>>
query == <<hooks, cache, fetch, muts, mutCount>>
push == <<subscription, sending, pushCount>>
vars == <<online, now, db, api, mgr, ui, query, result, push>>

\* ------------------------------------------------------- OfflineStorage
\* The ascending sequence of a finite set of integers (index enumeration
\* order of IndexedDB: by index key, then by primary key).
RECURSIVE SortedSeq(_)
SortedSeq(S) ==
    IF S = {} THEN <<>>
    ELSE LET m == CHOOSE x \in S : \A y \in S : x <= y
         IN <<m>> \o SortedSeq(S \ {m})

\* create(): the item written by store.add(), its key injected at keyPath 'id'.
CreateItem(k, data, t) ==
    [id |-> k, createdAt |-> t, updatedAt |-> t,
     synced |-> FALSE, localOnly |-> TRUE] @@ data

\* update(): { ...existing, ...data, updatedAt, synced: false }.
UpdateSyncedMut(existing) == existing.synced
UpdateSynced(existing) == FALSE
UpdatedItem(existing, data, t) ==
    [updatedAt |-> t, synced |-> UpdateSynced(existing)] @@ data @@ existing

\* markAsSynced(): the item read in the transaction with both flags set.
MarkedItem(item) == [item EXCEPT !.synced = TRUE, !.localOnly = FALSE]

\* getUnsynced(): index 'synced' restricted to false.
GetUnsyncedMut(st) == <<st[CHOOSE k \in DOMAIN st : TRUE]>>
GetUnsynced(st) ==
    LET ks == SortedSeq({k \in DOMAIN st : st[k].synced = FALSE})
    IN [n \in 1..Len(ks) |-> st[ks[n]]]

StorePut(st, k, item) == [j \in DOMAIN st \cup {k} |-> IF j = k THEN item ELSE st[j]]
StoreDelete(st, k) == [j \in DOMAIN st \ {k} |-> st[j]]

Content(item) == [title |-> item.title, completed |-> item.completed]

\* ---------------------------------------------------------- remote API
\* Canonical identifiers live in their own space; a URL carries the local key.
CanonicalId(n) == <<"c", n>>
LocalPath(k) == <<"idb", k>>

ServerCreate(srv, sid, body, origin) ==
    srv \cup {[sid |-> sid, title |-> body.title, completed |-> body.completed,
               origin |-> origin]}
ServerHas(srv, path) == \E r \in srv : CanonicalId(r.sid) = path
ServerUpdate(srv, path, body) ==
    {IF CanonicalId(r.sid) = path
       THEN [r EXCEPT !.title = IF "title" \in DOMAIN body THEN body.title ELSE @,
                      !.completed = IF "completed" \in DOMAIN body
                                      THEN body.completed ELSE @]
       ELSE r : r \in srv}
ServerDelete(srv, path) == {r \in srv : CanonicalId(r.sid) # path}

\* What fetch() can come back with: a 2xx response, a non-2xx response, a
\* network error before the server acts, or a response lost after it acted.
Outcomes == {"ok", "fail", "neterr", "lost"}
Committed(o) == o \in {"ok", "lost"}

\* -------------------------------------------------- BackgroundSyncManager
IdlePass == [pc |-> "idle", work |-> <<>>, i |-> 0, req |-> "none", ok |-> FALSE]

InFlight(ps) == {s \in Slots : ps[s].pc # "idle"}

\* syncNow() lines 342-350: the two early returns.
GuardRefusesMut(sip, on) == ~on
GuardIgnoresOffline(sip, on) == sip
GuardRefuses(sip, on) == sip \/ ~on

\* One call of syncNow() up to its first await, as a function of the manager
\* state st = [sip, ps, n, ok, busy, off]; ok = FALSE marks a call the bounds
\* cut off.
SyncNowCall(st, on) ==
    IF GuardRefuses(st.sip, on)
      THEN [st EXCEPT !.busy = @ \/ st.sip, !.off = @ \/ (~st.sip /\ ~on)]
    ELSE IF st.n >= MaxSyncs \/ InFlight(st.ps) = Slots
         THEN [st EXCEPT !.ok = FALSE]
         ELSE LET s == CHOOSE x \in Slots \ InFlight(st.ps) :
                          \A y \in Slots \ InFlight(st.ps) : x <= y
              IN [sip |-> TRUE,
                  ps |-> [st.ps EXCEPT ![s] = [IdlePass EXCEPT !.pc = "init"]],
                  n |-> st.n + 1, ok |-> TRUE, busy |-> st.busy, off |-> st.off]

Manager ==
    [sip |-> syncInProgress, ps |-> passes, n |-> syncCount, ok |-> TRUE,
     busy |-> busyRefused, off |-> offlineRefused]

SetManager(st) ==
    /\ st.ok
    /\ syncInProgress' = st.sip
    /\ passes' = st.ps
    /\ syncCount' = st.n
    /\ busyRefused' = st.busy
    /\ offlineRefused' = st.off

\* What has happened to a local record so far (observation only): a 2xx
\* response received for it, the POST, PUT and DELETE requests issued for it,
\* those of them issued since the manager last left Idle.
NewHist == [ok |-> FALSE, posts |-> 0, puts |-> 0, dels |-> 0, inPass |-> 0]

\* A mutation of the MutationCache: position (pc), variables (kind, id, data),
\* context.previousTodos (prev), response.ok of the attempt in flight (ok),
\* failureCount, and whether navigator.onLine was false at onMutate and has
\* been since (off, observation only).
IdleMut ==
    [pc |-> "idle", kind |-> "none", id |-> NoId, data |-> None, prev |-> Undefined,
     ok |-> FALSE, failures |-> 0, off |-> FALSE]

InitSync ==
    /\ online \in BOOLEAN
    /\ now = 0
    /\ store = [k \in {} |-> None]
    /\ nextKey = 1
    /\ server = {}
    /\ nextSid = 1
    /\ syncInProgress = FALSE
    /\ passes = [s \in Slots |-> IdlePass]
    /\ syncCount = 0
    /\ isOnline = online
    /\ registered \in {"bg", "listener"}
    /\ createdOnline = FALSE
    /\ busyRefused = FALSE
    /\ offlineRefused = FALSE
    /\ hist = [k \in {} |-> None]
    /\ hooks = "offline"
    /\ cache = Undefined
    /\ fetch = None
    /\ muts = [m \in Hooks |-> IdleMut]
    /\ mutCount = 0
    /\ result = Call("none", 0, None, "none")
    /\ NoPush

\* ---------------------------------------------------- connectivity events
\* window 'online': OfflineTodoList.handleOnline, then the manager's own
\* listener when registerSync() installed it; both call syncNow().
GoOnline ==
    /\ ~online
    /\ online' = TRUE
    /\ isOnline' = TRUE
    /\ LET st1 == SyncNowCall(Manager, TRUE)
           st2 == IF registered = "listener" THEN SyncNowCall(st1, TRUE) ELSE st1
       IN SetManager(st2)
    /\ UNCHANGED <<push, result, query, now, db, api, registered, createdOnline, hist>>

\* window 'offline': handleOffline.
GoOffline ==
    /\ online
    /\ online' = FALSE
    /\ isOnline' = FALSE
    /\ UNCHANGED <<push, result, query, now, db, api, mgr, registered, createdOnline, hist>>

\* ------------------------------------------------ OfflineTodoList handlers
\* 'If online, try to sync immediately': the handler's closing syncNow().
AfterMutation ==
    IF isOnline THEN SetManager(SyncNowCall(Manager, online))
                ELSE UNCHANGED mgr

handleManualSync ==
    /\ isOnline
    /\ SetManager(SyncNowCall(Manager, online))
    /\ UNCHANGED <<push, result, query, online, now, db, api, isOnline, registered, createdOnline, hist>>

addTodoUpTo(limit) ==
    /\ nextKey <= limit
    /\ \E title \in Titles :
         store' = StorePut(store, nextKey,
                           CreateItem(nextKey, [title |-> title, completed |-> FALSE], now))
    /\ nextKey' = nextKey + 1
    /\ hist' = [k \in 1..nextKey |-> IF k = nextKey THEN NewHist ELSE hist[k]]
    /\ createdOnline' = (createdOnline \/ online)
    /\ AfterMutation
    /\ UNCHANGED <<push, result, query, online, now, api, isOnline, registered>>

addTodo == addTodoUpTo(MaxKey)

\* toggleTodo(id, completed): completed is the value the list last rendered.
toggleTodo(id) ==
    /\ id \in 1..(nextKey - 1)
    /\ \/ /\ id \in DOMAIN store
          /\ \E shown \in BOOLEAN :
               store' = StorePut(store, id,
                                 UpdatedItem(store[id], [completed |-> ~shown], now))
          /\ AfterMutation
       \/ /\ id \notin DOMAIN store      \* 'Item not found': caught, alert
          /\ UNCHANGED <<store, mgr>>
    /\ UNCHANGED <<push, result, query, online, now, nextKey, api, isOnline, registered, createdOnline, hist>>

\* deleteTodo(id): store.delete() succeeds whether or not the key exists.
deleteTodo(id) ==
    /\ id \in 1..(nextKey - 1)
    /\ store' = StoreDelete(store, id)
    /\ AfterMutation
    /\ UNCHANGED <<push, result, query, online, now, nextKey, api, isOnline, registered, createdOnline, hist>>

\* ------------------------------------------------------- the sync pass
\* The pass runs from one await to the next: a step ends when it has issued
\* the next fetch() (pc "wait") or has left through finally (pc "idle").
MethodMut(todo) == "POST"
Method(todo) == IF todo.localOnly THEN "POST" ELSE "PUT"

\* lines 373 and 385: if (response.ok)
ResponseOkMut(pass) == TRUE
ResponseAnyPostMut(pass) == pass.req = "POST" \/ pass.ok
ResponseOk(pass) == pass.ok

\* lines 398-400: finally { this.syncInProgress = false }
FinallyMut(sip) == sip
Finally(sip) == FALSE

\* lines 363-383 and 398-400: with h the history the step has produced so
\* far, issue the request of entry i of the work list, or, past its end, run
\* finally { this.syncInProgress = false }.
IssueOrFinish(s, work, i, h) ==
    IF i <= Len(work)
      THEN LET todo == work[i]
           IN \E o \in Outcomes :
                /\ ~online => o = "neterr"
                /\ IF Method(todo) = "POST"
                     THEN /\ Committed(o) => nextSid <= MaxServer
                          /\ server' = IF Committed(o)
                                         THEN ServerCreate(server, nextSid, todo, todo.id)
                                         ELSE server
                          /\ nextSid' = IF Committed(o) THEN nextSid + 1 ELSE nextSid
                          /\ hist' = [h EXCEPT ![todo.id].posts = @ + 1,
                                               ![todo.id].inPass = @ + 1]
                     ELSE /\ Committed(o) => ServerHas(server, LocalPath(todo.id))
                          /\ server' = IF Committed(o)
                                         THEN ServerUpdate(server, LocalPath(todo.id), todo)
                                         ELSE server
                          /\ nextSid' = nextSid
                          /\ hist' = [h EXCEPT ![todo.id].puts = @ + 1,
                                               ![todo.id].inPass = @ + 1]
                /\ passes' = [passes EXCEPT ![s] = [pc |-> "wait", work |-> work, i |-> i,
                                                    req |-> Method(todo), ok |-> (o = "ok")]]
                /\ UNCHANGED <<syncInProgress, syncCount, busyRefused, offlineRefused>>
      ELSE /\ syncInProgress' = Finally(syncInProgress)
           /\ passes' = [passes EXCEPT ![s] = IdlePass]
           /\ hist' = [k \in DOMAIN h |-> [h[k] EXCEPT !.inPass = 0]]
           /\ UNCHANGED <<api, syncCount, busyRefused, offlineRefused>>

\* lines 355-363: init() and getUnsynced() resolve and the loop starts; when
\* either rejects the outer catch logs 'Sync failed' and finally runs.
SyncStart(s) ==
    /\ passes[s].pc = "init"
    /\ \/ IssueOrFinish(s, GetUnsynced(store), 1, hist)
       \/ IssueOrFinish(s, <<>>, 1, hist)
    /\ UNCHANGED <<push, result, query, online, now, db, isOnline, registered, createdOnline>>

\* lines 373-376, 385-388, 390-393: the fetch settles; response.ok ->
\* markAsSynced(todo.id); a thrown fetch or a rejected markAsSynced is caught;
\* then the next entry.
NextEntryMut(pass) == IF pass.ok THEN pass.i + 1 ELSE Len(pass.work) + 1
NextEntry(pass) == pass.i + 1

\* lines 358 and 363: the loop iterates the array getUnsynced() resolved
\* with; the store is not read again during the pass.
WorkListMut(pass, st) == GetUnsynced(st)
WorkList(pass, st) == pass.work

SyncStep(s) ==
    /\ passes[s].pc = "wait"
    /\ LET todo == passes[s].work[passes[s].i]
           h == IF passes[s].ok THEN [hist EXCEPT ![todo.id].ok = TRUE] ELSE hist
       IN /\ store' = IF ResponseOk(passes[s]) /\ todo.id \in DOMAIN store
                        THEN StorePut(store, todo.id, MarkedItem(store[todo.id]))
                        ELSE store
          /\ IssueOrFinish(s, WorkList(passes[s], store'), NextEntry(passes[s]), h)
    /\ UNCHANGED <<push, result, query, online, now, nextKey, isOnline, registered, createdOnline>>

NextSync ==
    \/ GoOnline
    \/ GoOffline
    \/ handleManualSync
    \/ addTodo
    \/ \E id \in Keys : toggleTodo(id)
    \/ \E id \in Keys : deleteTodo(id)
    \/ \E s \in Slots : SyncStart(s)
    \/ \E s \in Slots : SyncStep(s)

SpecSync == InitSync /\ [][NextSync]_vars


\* ------------------------------------------- a session with work to sync
\* The store outlives the page: OfflineTodoList mounts over records that an
\* earlier session added and never synced.
MountedOver(n) ==
    /\ online \in BOOLEAN
    /\ now = 0
    /\ store = [k \in 1..n |->
                  CreateItem(k, [title |-> "Buy milk", completed |-> FALSE], 0)]
    /\ nextKey = n + 1
    /\ server = {}
    /\ nextSid = 1
    /\ syncInProgress = FALSE
    /\ passes = [s \in Slots |-> IdlePass]
    /\ syncCount = 0
    /\ isOnline = online
    /\ registered = "bg"
    /\ createdOnline = FALSE
    /\ busyRefused = FALSE
    /\ offlineRefused = FALSE
    /\ hist = [k \in 1..n |-> NewHist]
    /\ hooks = "offline"
    /\ cache = Undefined
    /\ fetch = None
    /\ muts = [m \in Hooks |-> IdleMut]
    /\ mutCount = 0
    /\ result = Call("none", 0, None, "none")
    /\ NoPush

InitPass == MountedOver(PassItems)

\* navigator.onLine turns false; the 'offline' event has not been handled
\* yet, so the component still renders with isOnline = true.
LoseConnection ==
    /\ online
    /\ online' = FALSE
    /\ UNCHANGED <<push, result, query, now, db, api, mgr, ui>>

\* handleOffline runs for that event.
handleOffline ==
    /\ ~online
    /\ isOnline
    /\ isOnline' = FALSE
    /\ UNCHANGED <<push, result, query, online, now, db, api, mgr, registered, createdOnline, hist>>

NextPass ==
    \/ GoOnline
    \/ GoOffline
    \/ LoseConnection
    \/ handleOffline
    \/ handleManualSync
    \/ \E id \in 1..PassItems : deleteTodo(id)
    \/ \E s \in Slots : SyncStart(s)
    \/ \E s \in Slots : SyncStep(s)

SpecPass == InitPass /\ [][NextPass]_vars

\* The event loop resumes a suspended syncNow(): init() and getUnsynced()
\* settle, and every fetch() settles or throws.
SpecPassFair ==
    /\ SpecPass
    /\ WF_vars(\E s \in Slots : SyncStart(s))
    /\ WF_vars(\E s \in Slots : SyncStep(s))

\* ------------------------------------- a session that adds during a pass
\* OfflineTodoList mounts over one record left unsynced by an earlier session
\* and the user adds todos while a pass over it is in flight.
InitLate == MountedOver(1)

NextLate ==
    \/ GoOnline
    \/ GoOffline
    \/ handleManualSync
    \/ addTodoUpTo(MaxKey + 1)
    \/ \E s \in Slots : SyncStart(s)
    \/ \E s \in Slots : SyncStep(s)

SpecLate == InitLate /\ [][NextLate]_vars

\* The event loop resumes a suspended syncNow() once the promise it awaits
\* (init, getUnsynced, fetch, markAsSynced) has settled.
SpecLateFair ==
    /\ SpecLate
    /\ WF_vars(\E s \in Slots : SyncStart(s))
    /\ WF_vars(\E s \in Slots : SyncStep(s))

\* ================================================== TanStack Query hooks
MutationRetry == 2     \* defaultOptions.mutations.retry

Todo(id, title, completed) == [id |-> id, title |-> title, completed |-> completed]
TempId(t) == <<"temp", t>>

\* GET /api/todos: every record, newest first.
ServerList(srv) ==
    LET ids == SortedSeq({r.sid : r \in srv})
        n == Len(ids)
    IN [j \in 1..n |->
          LET r == CHOOSE x \in srv : x.sid = ids[n + 1 - j]
          IN Todo(CanonicalId(r.sid), r.title, r.completed)]

\* useTodos queryFn, offline branch: getAll() mapped to Todo, id.toString().
OfflineList(st) ==
    LET ks == SortedSeq(DOMAIN st)
    IN [j \in 1..Len(ks) |-> Todo(LocalPath(ks[j]), st[ks[j]].title, st[ks[j]].completed)]

CachedIds(c) == {c.todos[j].id : j \in 1..Len(c.todos)}

\* The updater functions handed to setQueryData by onMutate, (old = []) => ...
OptimisticCreate(c, data, t) ==
    Data(<<Todo(TempId(t), data.title, data.completed)>> \o c.todos)
OptimisticUpdateMut(c, id, data) ==
    Data([j \in 1..Len(c.todos) |-> data @@ c.todos[j]])
OptimisticUpdate(c, id, data) ==
    LET old == c.todos
    IN Data([j \in 1..Len(old) |-> IF old[j].id = id THEN data @@ old[j] ELSE old[j]])
OptimisticDelete(c, id) ==
    LET keep(todo) == todo.id # id
    IN Data(SelectSeq(c.todos, keep))
Optimistic(c, kind, id, data, t) ==
    CASE kind = "create" -> OptimisticCreate(c, data, t)
      [] kind = "update" -> OptimisticUpdate(c, id, data)
      [] kind = "delete" -> OptimisticDelete(c, id)

\* queryClient.cancelQueries({ queryKey: ['todos'] }): the fetch in flight is
\* cancelled; its request may still be out, its result is discarded.
CancelQueriesMut(f) == f
CancelQueries(f) ==
    IF f = None THEN None ELSE [data |-> Undefined, pre |-> f.pre, cancelled |-> TRUE]

\* A fetch that is still in flight when setQueryData writes the optimistic
\* value started before that value existed (observation only).
MarkStale(f) == IF f = None THEN None ELSE [f EXCEPT !.pre = TRUE]

\* The fetch a (re)fetch of ['todos'] starts, with the list its queryFn will
\* resolve to.
StartFetch(on, srv, st) ==
    [data |-> Data(IF on THEN ServerList(srv) ELSE OfflineList(st)),
     pre |-> FALSE, cancelled |-> FALSE]

\* offlineDB.todos.create(data) by a hook.
HookStoreCreate(st, key, data, t) == StorePut(st, key, CreateItem(key, data, t))
HookHist(h, key) == [k \in DOMAIN h \cup {key} |-> IF k = key THEN NewHist ELSE h[k]]

\* The request of one attempt of mutationFn: what the server does with it.
RequestCommits(mut, srv, sid) ==
    IF mut.kind = "create" THEN sid <= MaxServer ELSE ServerHas(srv, mut.id)
ServerAfter(mut, srv, sid) ==
    CASE mut.kind = "create" -> ServerCreate(srv, sid, mut.data, 0)
      [] mut.kind = "update" -> ServerUpdate(srv, mut.id, mut.data)
      [] mut.kind = "delete" -> ServerDelete(srv, mut.id)

\* createTodo / updateTodo / deleteTodo up to 'await fetch(...)'.
SendRequest(m, mut) ==
    \E o \in Outcomes :
      /\ ~online => o = "neterr"
      /\ Committed(o) => RequestCommits(mut, server, nextSid)
      /\ server' = IF Committed(o) THEN ServerAfter(mut, server, nextSid) ELSE server
      /\ nextSid' = IF Committed(o) /\ mut.kind = "create" THEN nextSid + 1 ELSE nextSid
      /\ muts' = [muts EXCEPT ![m] = [mut EXCEPT !.pc = "sent", !.ok = (o = "ok")]]

\* mutationFn after the fetch has settled without a 2xx response: does the
\* catch block return a value instead of rethrowing?
SynthesizesSuccess(variant, mut, on, c) ==
    /\ variant = "offline"
    /\ ~on
    /\ mut.kind = "update" => mut.id \in CachedIds(c)

\* onError: does it write context.previousTodos back?
RollsBack(variant, mut, on) ==
    /\ mut.prev.defined
    /\ variant = "offline" => on

\* onSuccess: does it call invalidateQueries?
InvalidatesMut(variant, on) == FALSE
Invalidates(variant, on) == variant = "basic" \/ on

\* The page with one todo already on the server and c in the query cache.
Page(c) ==
    /\ online \in BOOLEAN
    /\ now = 0
    /\ store = [k \in {} |-> None]
    /\ nextKey = 1
    /\ server = ServerCreate({}, 0, [title |-> "Buy milk", completed |-> FALSE], 0)
    /\ nextSid = 1
    /\ syncInProgress = FALSE
    /\ passes = [s \in Slots |-> IdlePass]
    /\ syncCount = 0
    /\ isOnline = online
    /\ registered = "bg"
    /\ createdOnline = FALSE
    /\ busyRefused = FALSE
    /\ offlineRefused = FALSE
    /\ hist = [k \in {} |-> None]
    /\ hooks \in {"offline", "basic"}
    /\ cache = c
    /\ fetch = None
    /\ muts = [m \in Hooks |-> IdleMut]
    /\ mutCount = 0
    /\ result = Call("none", 0, None, "none")
    /\ NoPush

\* The page loads: nothing is cached yet.
InitCache == Page(Undefined)

\* window 'online' / 'offline' as seen by navigator.onLine.
ConnectivityUp ==
    /\ ~online
    /\ online' = TRUE
    /\ muts' = [m \in Hooks |-> [muts[m] EXCEPT !.off = FALSE]]
    /\ UNCHANGED <<push, result, now, db, api, mgr, ui, hooks, cache, fetch, mutCount>>

ConnectivityDown ==
    /\ online
    /\ online' = FALSE
    /\ UNCHANGED <<push, result, now, db, api, mgr, ui, query>>

\* The 'todos' query fetches: mount, focus, reconnect, refetch(). With the
\* basic queryFn an offline fetch rejects and leaves the data alone.
RefetchStart ==
    /\ online \/ hooks = "offline"
    /\ fetch' = StartFetch(online, server, store)
    /\ fetch' # fetch
    /\ UNCHANGED <<push, result, online, now, db, api, mgr, ui, hooks, cache, muts, mutCount>>

RefetchComplete ==
    /\ fetch # None
    /\ ~fetch.cancelled
    /\ cache' = fetch.data
    /\ fetch' = None
    /\ UNCHANGED <<push, result, online, now, db, api, mgr, ui, hooks, muts, mutCount>>

\* The fetch rejects, or settles after it was cancelled.
RefetchFail ==
    /\ fetch # None
    /\ fetch' = None
    /\ UNCHANGED <<push, result, online, now, db, api, mgr, ui, hooks, cache, muts, mutCount>>

\* mutate(variables) at Date.now() = t: onMutate, then the first attempt of
\* mutationFn up to its fetch. The observer of a hook follows one mutation at
\* a time; limit bounds the number of mutations of a session.
MutateAt(kind, id, data, limit, t) ==
    /\ muts[kind].pc \in {"idle", "success", "error"}
    /\ mutCount < limit
    /\ mutCount' = mutCount + 1
    /\ now' = t
    /\ fetch' = MarkStale(CancelQueries(fetch))
    /\ cache' = Optimistic(cache, kind, id, data, now')
    /\ IF kind = "create" /\ ~online
         THEN /\ store' = HookStoreCreate(store, nextKey, data, now')
              /\ nextKey' = nextKey + 1
              /\ hist' = HookHist(hist, nextKey)
         ELSE UNCHANGED <<db, hist>>
    /\ SendRequest(kind, [pc |-> "run", kind |-> kind, id |-> id, data |-> data,
                          prev |-> cache, ok |-> FALSE, failures |-> 0,
                          off |-> ~online])
    /\ UNCHANGED <<push, result, online, mgr, isOnline, registered, createdOnline, hooks>>

\* Submissions more than a millisecond apart: each onMutate reads a later
\* Date.now().
Mutate(kind, id, data) == MutateAt(kind, id, data, MaxMuts, now + 1)

handleAddTodo ==
    \E title \in Titles : Mutate("create", NoId, [title |-> title, completed |-> FALSE])

handleToggleTodo ==
    \E j \in 1..Len(cache.todos) :
      Mutate("update", cache.todos[j].id, [completed |-> ~cache.todos[j].completed])

handleDeleteTodo ==
    \E id \in CachedIds(cache) : Mutate("delete", id, None)

\* A settled mutation: its status, with variables and context released.
Settled(mut, status) == [IdleMut EXCEPT !.pc = status, !.off = mut.off]

\* The fetch of an attempt settles: mutationFn returns or throws, then
\* onSuccess, or a retry is scheduled, or onError.
Settle(m) ==
    LET mut == muts[m]
        success == mut.ok \/ SynthesizesSuccess(hooks, mut, online, cache)
    IN /\ mut.pc = "sent"
       /\ IF success
            THEN /\ muts' = [muts EXCEPT ![m] = Settled(mut, "success")]
                 /\ IF hooks = "offline" /\ mut.kind = "create"
                      THEN /\ store' = HookStoreCreate(store, nextKey, mut.data, now)
                           /\ nextKey' = nextKey + 1
                           /\ hist' = HookHist(hist, nextKey)
                      ELSE UNCHANGED <<db, hist>>
                 /\ fetch' = IF Invalidates(hooks, online)
                               THEN IF online THEN StartFetch(TRUE, server, store) ELSE None
                               ELSE fetch
                 /\ UNCHANGED cache
            ELSE IF mut.failures < MutationRetry
                   THEN /\ muts' = [muts EXCEPT ![m].pc = "retry", ![m].failures = @ + 1]
                        /\ UNCHANGED <<db, hist, fetch, cache>>
                   ELSE /\ muts' = [muts EXCEPT ![m] = Settled(mut, "error")]
                        /\ cache' = IF RollsBack(hooks, mut, online) THEN mut.prev ELSE cache
                        /\ UNCHANGED <<db, hist, fetch>>
       /\ UNCHANGED <<push, result, online, now, api, mgr, isOnline, registered, createdOnline, hooks, mutCount>>

\* The retryer runs the next attempt; it stays paused while offline.
Retry(m) ==
    /\ muts[m].pc = "retry"
    /\ online
    /\ SendRequest(m, muts[m])
    /\ UNCHANGED <<push, result, online, now, db, mgr, ui, hooks, cache, fetch, mutCount>>

NextCache ==
    \/ ConnectivityUp
    \/ ConnectivityDown
    \/ RefetchStart
    \/ RefetchComplete
    \/ RefetchFail
    \/ handleAddTodo
    \/ handleToggleTodo
    \/ handleDeleteTodo
    \/ \E m \in Hooks : Settle(m)
    \/ \E m \in Hooks : Retry(m)

SpecCache == InitCache /\ [][NextCache]_vars

\* Every fetch() of a mutation settles or throws, and the retryer resumes a
\* paused attempt once the connection is back.
SpecCacheFair ==
    /\ SpecCache
    /\ \A m \in Hooks : WF_vars(Settle(m)) /\ WF_vars(Retry(m))

\* ------------------------------------------- submissions in quick succession
\* The same handlers with nothing assumed about the time between two
\* submissions: Date.now() has millisecond resolution (coarser where the
\* browser clamps timers), so the next onMutate may read the same value.
MaxOverlap == 2

ClockReads == {now, now + 1}

handleAddTodoAt(t) ==
    \E title \in Titles :
      MutateAt("create", NoId, [title |-> title, completed |-> FALSE], MaxOverlap, t)

handleToggleTodoAt(t) ==
    \E j \in 1..Len(cache.todos) :
      MutateAt("update", cache.todos[j].id, [completed |-> ~cache.todos[j].completed],
               MaxOverlap, t)

handleDeleteTodoAt(t) ==
    \E id \in CachedIds(cache) : MutateAt("delete", id, None, MaxOverlap, t)

\* The page is open with the 'todos' query loaded, in a session that stays
\* online.
InitOverlap ==
    /\ Page(Data(<<Todo(CanonicalId(0), "Buy milk", FALSE)>>))
    /\ online

NextOverlap ==
    \/ RefetchComplete
    \/ \E t \in ClockReads : handleAddTodoAt(t)
    \/ \E t \in ClockReads : handleToggleTodoAt(t)
    \/ \E t \in ClockReads : handleDeleteTodoAt(t)
    \/ \E m \in Hooks : Settle(m)
    \/ \E m \in Hooks : Retry(m)

SpecOverlap == InitOverlap /\ [][NextOverlap]_vars

\* --------------------------------------------- one database, two pages
\* The hooks and OfflineTodoList open the same IndexedDB database
\* ('pwa-offline-db', store 'todos') of the origin: a record the hooks write is
\* in the unsynced set a later pass of syncManager reads. The session stays
\* online.
InitShared ==
    /\ Page(Undefined)
    /\ online
    /\ hooks = "offline"

NextShared ==
    \/ handleAddTodo
    \/ \E m \in Hooks : Settle(m)
    \/ \E m \in Hooks : Retry(m)
    \/ RefetchComplete
    \/ handleManualSync
    \/ \E s \in Slots : SyncStart(s)
    \/ \E s \in Slots : SyncStep(s)

SpecShared == InitShared /\ [][NextShared]_vars

\* ============================================ OfflineStorage on its own
\* offlineDB.todos called directly, one method at a time, on the store
\* 'todos'; the sync manager and the hooks stay out of it.
StoreTitles == Titles \cup {"Walk dog"}

\* Partial<{ title: string; completed: boolean }>
Partials ==
    {[completed |-> c] : c \in BOOLEAN}
      \cup {[title |-> t] : t \in StoreTitles}
      \cup {[title |-> t, completed |-> c] : t \in StoreTitles, c \in BOOLEAN}

\* delete(): store.delete(id) fires onsuccess whether or not the key exists.
DeleteResult(st, id) == "resolved"

InitStore ==
    /\ InitSync
    /\ online = TRUE
    /\ registered = "bg"

\* Each call is made later than the one before it: now' is its Date.now().
Later ==
    /\ now < MaxClock
    /\ now' = now + 1

create ==
    /\ Later
    /\ nextKey <= MaxItems
    /\ \E title \in Titles :
         LET data == [title |-> title, completed |-> FALSE]
         IN /\ store' = StorePut(store, nextKey, CreateItem(nextKey, data, now'))
            /\ result' = Call("create", nextKey, data, "resolved")
    /\ nextKey' = nextKey + 1
    /\ UNCHANGED <<push, online, api, mgr, ui, query>>

update(id, data) ==
    /\ Later
    /\ IF id \in DOMAIN store
         THEN /\ store' = StorePut(store, id, UpdatedItem(store[id], data, now'))
              /\ result' = Call("update", id, data, "resolved")
         ELSE /\ store' = store
              /\ result' = Call("update", id, data, "Item not found")
    /\ UNCHANGED <<push, online, nextKey, api, mgr, ui, query>>

delete(id) ==
    /\ Later
    /\ store' = StoreDelete(store, id)
    /\ result' = Call("delete", id, None, DeleteResult(store, id))
    /\ UNCHANGED <<push, online, nextKey, api, mgr, ui, query>>

markAsSynced(id) ==
    /\ Later
    /\ IF id \in DOMAIN store
         THEN /\ store' = StorePut(store, id, MarkedItem(store[id]))
              /\ result' = Call("markAsSynced", id, None, "resolved")
         ELSE /\ store' = store
              /\ result' = Call("markAsSynced", id, None, "Item not found")
    /\ UNCHANGED <<push, online, nextKey, api, mgr, ui, query>>

NextStore ==
    \/ create
    \/ \E id \in 1..MaxItems, data \in Partials : update(id, data)
    \/ \E id \in 1..MaxItems : delete(id)
    \/ \E id \in 1..MaxItems : markAsSynced(id)

SpecStore == InitStore /\ [][NextStore]_vars

\* ================================================= push server actions
\* src/app/actions.ts: the server actions around the module-level
\* subscription, called by any client at any time; a sendNotification stays
\* suspended at 'await webpush.sendNotification' while other calls run.
Endpoints == {"https://push.example/a", "https://push.example/b"}
Subscriptions == {[endpoint |-> e] : e \in Endpoints}

\* What the push service answers: 201 accepts the message; any other status
\* makes webpush.sendNotification reject with error.statusCode set.
PushStatus == {201, 400, 404, 410}

\* line 98: if (!subscription)
NoSubscriptionMut(sub) == FALSE
NoSubscription(sub) == sub = None

\* line 129: error.statusCode === 410 || error.statusCode === 404
ExpiredMut(status) == status = 410
Expired(status) == status = 410 \/ status = 404

\* getSubscriptionStatus(): the object it returns.
Status(sub) ==
    [isSubscribed |-> sub # None,
     endpoint |-> IF sub = None THEN "null" ELSE sub.endpoint]

subscribeUser(sub) ==
    /\ Later
    /\ subscription' = sub
    /\ result' = Call("subscribeUser", NoId, sub, "success")
    /\ UNCHANGED <<online, db, api, mgr, ui, query, sending, pushCount>>

unsubscribeUser ==
    /\ Later
    /\ subscription' = None
    /\ result' = Call("unsubscribeUser", NoId, None, "success")
    /\ UNCHANGED <<online, db, api, mgr, ui, query, sending, pushCount>>

getSubscriptionStatus ==
    /\ Later
    /\ result' = Call("getSubscriptionStatus", NoId, Status(subscription), "resolved")
    /\ UNCHANGED <<online, db, api, mgr, ui, query, push>>

\* sendNotification(message) up to its await: it throws, or hands the
\* stored subscription and the payload to webpush.sendNotification.
sendNotification ==
    /\ Later
    /\ IF NoSubscription(subscription)
         THEN /\ result' = Call("sendNotification", NoId, None, "throws")
              /\ UNCHANGED push
         ELSE \E s \in 1..MaxSends :
                /\ sending[s].pc = "idle"
                /\ \A x \in 1..(s - 1) : sending[x].pc # "idle"
                /\ sending' = [sending EXCEPT ![s] = [pc |-> "wait", sub |-> subscription,
                                                      status |-> 0]]
                /\ pushCount' = pushCount + 1
                /\ result' = Call("sendNotification", NoId, subscription, "pending")
                /\ UNCHANGED subscription
    /\ UNCHANGED <<online, db, api, mgr, ui, query>>

\* lines 117-146: webpush.sendNotification settles; the call returns
\* { success: true }, or the catch block runs.
SendSettles(s) ==
    /\ sending[s].pc = "wait"
    /\ \E status \in PushStatus :
         /\ sending' = [sending EXCEPT ![s].pc = "done", ![s].status = status]
         /\ IF status = 201
              THEN /\ result' = Call("sendNotification", NoId, sending[s].sub, "success")
                   /\ UNCHANGED subscription
              ELSE IF Expired(status)
                     THEN /\ subscription' = None
                          /\ result' = Call("sendNotification", NoId, sending[s].sub,
                                            "Subscription expired. Please subscribe again.")
                     ELSE /\ UNCHANGED subscription
                          /\ result' = Call("sendNotification", NoId, sending[s].sub,
                                            "Failed to send notification")
    /\ UNCHANGED <<online, now, db, api, mgr, ui, query, pushCount>>

InitPush == InitStore

NextPush ==
    \/ \E sub \in Subscriptions : subscribeUser(sub)
    \/ unsubscribeUser
    \/ getSubscriptionStatus
    \/ sendNotification
    \/ \E s \in 1..MaxSends : SendSettles(s)

SpecPush == InitPush /\ [][NextPush]_vars

\* ====================================== the optimistic updaters on their own
\* The functions onMutate hands to setQueryData, applied to any cached
\* collection and any variables, the identifier being in the cache or not.
MaxCached == 2

CacheIds == {CanonicalId(0), CanonicalId(1), TempId(0)}

CachedLists ==
    UNION {[1..n -> {Todo(id, "Buy milk", c) : id \in CacheIds, c \in BOOLEAN}] :
             n \in 0..MaxCached}

InitApply ==
    /\ \E c \in {Undefined} \cup {Data(l) : l \in CachedLists} : Page(c)
    /\ online
    /\ hooks = "offline"

\* queryClient.setQueryData(['todos'], updater) as onMutate calls it.
setQueryData(kind, id, data) ==
    /\ mutCount < MaxMuts
    /\ mutCount' = mutCount + 1
    /\ now' = now + 1
    /\ cache' = Optimistic(cache, kind, id, data, now')
    /\ result' = Call(kind, id, data, "applied")
    /\ UNCHANGED <<push, online, db, api, mgr, ui, hooks, fetch, muts>>

\* The setQueryData call of each hook's onMutate.
onMutateCreate(data) == setQueryData("create", NoId, data)
onMutateUpdate(id, data) == setQueryData("update", id, data)
onMutateDelete(id) == setQueryData("delete", id, None)

NextApply ==
    \/ \E title \in StoreTitles, c \in BOOLEAN :
         onMutateCreate([title |-> title, completed |-> c])
    \/ \E id \in CacheIds, data \in Partials : onMutateUpdate(id, data)
    \/ \E id \in CacheIds : onMutateDelete(id)

SpecApply == InitApply /\ [][NextApply]_vars

\* ===================================================== claims on SpecSync

\* C1: at most one sync pass is in flight; a syncNow() arriving meanwhile is
\* refused, so no record receives two requests while the manager is Syncing.
C1_OneSyncInFlight ==
    /\ Cardinality(InFlight(passes)) <= 1
    /\ syncInProgress <=> (InFlight(passes) # {})
    /\ \A k \in DOMAIN hist : hist[k].inPass <= 1
    /\ \A s \in Slots :
         passes[s].pc = "wait" =>
           \A n \in 1..passes[s].i : hist[passes[s].work[n].id].inPass = 1

C1_Witness ==
    /\ busyRefused
    /\ \E s \in Slots : passes[s].pc = "wait" /\ hist[1].inPass = 1

\* C2: a record whose content differs from what the server acknowledged has
\* synced = false (equivalently: a synced record's content is on the server).
C2_SyncedMeansAcknowledged ==
    \A k \in DOMAIN store :
      store[k].synced =>
        \E r \in server : r.origin = k /\ Content(r) = Content(store[k])

\* C3: once a pass has created a record on the server, its local identifier
\* is gone from the store.
C3_TemporaryIdRetired ==
    \A k \in DOMAIN store : ~hist[k].ok

\* C4: a record keeps localOnly = true and synced = false until a request for
\* it has received a successful response; this holds for every record, so for
\* each one created while offline.
C4_LocalOnlyUntilAcknowledged ==
    \A k \in DOMAIN store :
      ~hist[k].ok => (store[k].localOnly /\ ~store[k].synced)

C4_Witness ==
    /\ ~createdOnline
    /\ online
    /\ InFlight(passes) = {}
    /\ 1 \in DOMAIN store
    /\ store[1].completed
    /\ hist[1].posts >= 1
    /\ ~hist[1].ok
    /\ store[1].localOnly /\ ~store[1].synced

\* C5: a pass sends POST for a work-list entry with localOnly and PUT for the
\* others; a reconnection admits at most one pass; a record gets no PUT before
\* and no POST after its successful response, and that response leaves it
\* synced = true, localOnly = false.
C5_ReconnectSync ==
    [][ /\ \A s \in Slots :
             passes'[s].pc = "wait" =>
               passes'[s].req = IF passes'[s].work[passes'[s].i].localOnly
                                  THEN "POST" ELSE "PUT"
        /\ (~online /\ online') =>
             /\ syncCount' <= syncCount + 1
             /\ Cardinality(InFlight(passes')) <= 1
        /\ \A k \in DOMAIN hist :
             /\ hist[k].ok => hist'[k].posts = hist[k].posts
             /\ hist'[k].puts > 0 => hist[k].ok
             /\ (~hist[k].ok /\ hist'[k].ok /\ k \in DOMAIN store') =>
                  (store'[k].synced /\ ~store'[k].localOnly)
      ]_vars

C5_Witness ==
    /\ ~createdOnline
    /\ syncCount = 1
    /\ InFlight(passes) = {}
    /\ 1 \in DOMAIN store
    /\ hist[1].posts = 1 /\ hist[1].puts = 0 /\ hist[1].ok
    /\ store[1].synced /\ ~store[1].localOnly

\* C10: deleting a record while online issues a DELETE request for it.
C10_OnlineDeleteIsSent ==
    [][ \A k \in DOMAIN store :
          (k \notin DOMAIN store' /\ online) => hist'[k].dels > hist[k].dels
      ]_vars

\* ===================================================== claims on SpecPass

\* C15: whatever happens to one entry of a pass (fetch throws, response not
\* ok, markAsSynced rejects because the record is gone), the pass goes on to
\* the next entry and ends only after the last one; an entry whose response is
\* ok is marked synced if its record still exists, and a record whose request
\* failed stays synced = false.
C15_FailureDoesNotStopPass ==
    [][ \A s \in Slots :
          passes[s].pc = "wait" =>
            LET pass == passes[s]
                todo == pass.work[pass.i]
            IN /\ passes'[s] # pass =>
                    IF pass.i < Len(pass.work)
                      THEN /\ passes'[s].pc = "wait"
                           /\ passes'[s].i = pass.i + 1
                           /\ passes'[s].work = pass.work
                           /\ hist'[pass.work[pass.i + 1].id].inPass = 1
                      ELSE passes'[s].pc = "idle"
               /\ (passes'[s] # pass /\ todo.id \in DOMAIN store) =>
                    IF pass.ok
                      THEN store'[todo.id].synced /\ ~store'[todo.id].localOnly
                      ELSE ~store'[todo.id].synced
               /\ \A k \in DOMAIN store' :
                    (k # todo.id \/ passes'[s] = pass) => store'[k] = store[k]
      ]_vars

\* One pass over two records: the first request failed, the second was still
\* sent, answered 2xx and marked.
C15_Witness ==
    /\ syncCount = 1
    /\ InFlight(passes) = {}
    /\ DOMAIN store = {1, 2}
    /\ hist[1].posts = 1 /\ ~hist[1].ok /\ ~store[1].synced
    /\ hist[2].posts = 1 /\ hist[2].ok /\ store[2].synced

\* C16: a pass that has read the store works on every record with
\* synced = false, however many requests have failed for it before, and a
\* record whose requests have all failed is still unsynced; and if the server
\* answers every request successfully, a pass that has read its work list
\* leads to every record of the store having synced = true.
ServerAnswers == \A s \in Slots : passes[s].pc = "wait" => passes[s].ok
AllSynced == \A k \in DOMAIN store : store[k].synced
C20_OfflineCallIsNoOp ==
    [][ /\ (~online /\ ~online' /\ ~syncInProgress) =>
             /\ ~syncInProgress'
             /\ passes' = passes
             /\ syncCount' = syncCount
             /\ hist' = hist
             /\ server' = server
             /\ \A k \in DOMAIN store' : store'[k] = store[k]
        /\ (offlineRefused' /\ ~offlineRefused) =>
             /\ ~online /\ ~syncInProgress'
             /\ passes' = passes /\ syncCount' = syncCount
             /\ hist' = hist /\ server' = server
      ]_vars

\* The first pass ever admitted is in flight, online, after a call had been
\* refused for being offline.
C20_Witness ==
    /\ offlineRefused
    /\ online
    /\ syncCount = 1
    /\ syncInProgress
    /\ \E s \in Slots : passes[s].pc = "wait" /\ hist[1].posts = 1

\* ==================================================== claims on SpecCache

\* C6: when the last attempt of a mutation fails while online, the cache
\* after onError equals the query data onMutate found before its optimistic
\* write, whatever that was (no data included).
C6_RollbackLaw ==
    [][ \A m \in Hooks :
          (muts[m].pc = "sent" /\ muts'[m].pc = "error" /\ online) =>
            cache' = muts[m].prev
      ]_vars

\* C7: a mutation started offline, with the signal offline ever since, has
\* never had its mutationFn throw and is never in the error state.
C7_OfflineTolerance ==
    \A m \in Hooks :
      muts[m].off => (muts[m].failures = 0 /\ muts[m].pc # "error")

\* C8: an offline create from an empty cache and an empty store (the first
\* mutate() call: only mutations write the store here), once its
\* handlers have run, leaves one temporary record with completed = false in
\* the cache and exactly one record, localOnly and not synced, in the store.
C8_ScenarioA ==
    [][ \A m \in Hooks :
          ( /\ muts[m].kind = "create" /\ muts[m].off
            /\ muts[m].prev.todos = <<>> /\ mutCount = 1
            /\ muts[m].pc = "sent" /\ muts'[m].pc \in {"success", "error"} ) =>
            /\ Cardinality(DOMAIN store') = 1
            /\ \A k \in DOMAIN store' : store'[k].localOnly /\ ~store'[k].synced
            /\ Len(cache'.todos) = 1
            /\ cache'.todos[1].id[1] = "temp" /\ ~cache'.todos[1].completed
      ]_vars

\* C9: every fetch of 'todos' that was in flight when an optimistic value was
\* written has been cancelled, so its result is never written over that value.
C9_RefetchCancelled ==
    fetch # None => (fetch.pre => fetch.cancelled)

C9_Witness ==
    /\ fetch # None
    /\ fetch.pre /\ fetch.cancelled
    /\ \E m \in Hooks : muts[m].pc = "sent"

\* C13: a mutation function that runs while navigator.onLine is false calls
\* no fetch(): no attempt of a mutation gets a request in flight then.
C13_NoRequestWhileOffline ==
    [][ \A m \in Hooks :
          (muts[m].pc # "sent" /\ muts'[m].pc = "sent") => online
      ]_vars

\* C14: when a mutation succeeds while online, onSuccess leaves a fetch of
\* GET /api/todos in flight whose list is the server's (with the mutation
\* applied, when no other mutation has touched the server); and a fetch that
\* completes writes exactly its list to the cache, which then holds no
\* temporary identifier.
C14_SuccessRefetches ==
    [][ /\ \A m \in Hooks :
             (muts[m].pc = "sent" /\ muts'[m].pc = "success" /\ online) =>
               /\ fetch' = [data |-> Data(ServerList(server')), pre |-> FALSE,
                            cancelled |-> FALSE]
               /\ (mutCount = 1 /\ muts[m].kind = "create") =>
                    \E j \in 1..Len(fetch'.data.todos) :
                      /\ fetch'.data.todos[j].id[1] = "c"
                      /\ fetch'.data.todos[j].title = muts[m].data.title
               /\ (mutCount = 1 /\ muts[m].kind = "update") =>
                    \E j \in 1..Len(fetch'.data.todos) :
                      /\ fetch'.data.todos[j].id = muts[m].id
                      /\ fetch'.data.todos[j].completed = muts[m].data.completed
               /\ muts[m].kind = "delete" => muts[m].id \notin CachedIds(fetch'.data)
        /\ (fetch # None /\ fetch' = None /\ cache' # cache) =>
             /\ ~fetch.cancelled
             /\ cache' = fetch.data
             /\ \A id \in CachedIds(cache') : id[1] # "temp"
      ]_vars

\* A create has succeeded online and its refetch has completed: the cache is
\* the server's list, the new record under its canonical identifier.
C14_Witness ==
    /\ online
    /\ muts["create"].pc = "success"
    /\ fetch = None
    /\ server # {}
    /\ cache = Data(ServerList(server))
    /\ \E id \in CachedIds(cache) : id = CanonicalId(1)

\* C17: a create made while offline is retried when the connection returns:
\* if the connection comes back for good and every request made while online
\* is answered 2xx, the server eventually holds a record created by a request.
AnsweredOnline ==
    \A m \in Hooks : (muts[m].pc = "sent" /\ ~muts[m].off) => muts[m].ok
C17_OfflineCreateReachesServer ==
    (<>[]online /\ []AnsweredOnline) =>
      [](  (muts["create"].pc = "sent" /\ muts["create"].off)
             => <>(\E r \in server : r.sid >= 1) )

\* C18: an update or a delete made while offline is applied on the server
\* after reconnection: if the connection comes back for good and every request
\* made while online is answered 2xx, the server's record eventually shows the
\* update, and a record deleted offline is eventually gone from the server.
ServerIds == {CanonicalId(n) : n \in 0..MaxServer}
C18_OfflineChangeReachesServer ==
    (<>[]online /\ []AnsweredOnline) =>
      \A id \in ServerIds :
        /\ \A c \in BOOLEAN :
             []( ( /\ muts["update"].pc = "sent" /\ muts["update"].off
                   /\ muts["update"].id = id /\ muts["update"].data.completed = c
                   /\ ServerHas(server, id) )
                 => <>(\E r \in server : CanonicalId(r.sid) = id /\ r.completed = c) )
        /\ []( (muts["delete"].pc = "sent" /\ muts["delete"].off /\ muts["delete"].id = id)
                 => <>(~ServerHas(server, id)) )

\* C19: while a mutation is pending (its onMutate has run, it has not
\* settled), the cache shows its optimistic change: the created todo is listed,
\* the updated todo has the new value, the deleted todo is not listed.
C19_CacheShowsPendingMutation ==
    \A m \in Hooks :
      muts[m].pc \in {"sent", "retry"} =>
        /\ muts[m].kind = "create" =>
             \E j \in 1..Len(cache.todos) : cache.todos[j].title = muts[m].data.title
        /\ muts[m].kind = "update" =>
             \A j \in 1..Len(cache.todos) :
               cache.todos[j].id = muts[m].id =>
                 cache.todos[j].completed = muts[m].data.completed
        /\ muts[m].kind = "delete" => muts[m].id \notin CachedIds(cache)

\* Does the collection c show the optimistic change of mutation mut?
ShowsChange(c, mut) ==
    CASE mut.kind = "create" ->
           \E j \in 1..Len(c.todos) :
             c.todos[j].id[1] = "temp" /\ c.todos[j].title = mut.data.title
      [] mut.kind = "update" ->
           \E j \in 1..Len(c.todos) :
             /\ c.todos[j].id = mut.id
             /\ c.todos[j].completed = mut.data.completed
             /\ \A i \in 1..Len(mut.prev.todos) :
                  mut.prev.todos[i].id = mut.id =>
                    mut.prev.todos[i].completed # mut.data.completed
      [] mut.kind = "delete" ->
           mut.id \in CachedIds(mut.prev) /\ mut.id \notin CachedIds(c)
      [] OTHER -> FALSE

\* C30: a mutation whose request failed ends either reported as an error
\* with its optimistic change gone from the cache, or reported as a success
\* with the optimistic change kept, whatever the connectivity signal did in
\* between; it is never an error with its optimistic change still cached.
C30_ErrorMeansRolledBack ==
    [][ \A m \in Hooks :
          /\ (muts[m].pc = "sent" /\ muts'[m].pc = "error") =>
               ~ShowsChange(cache', muts[m])
          /\ (muts[m].pc = "sent" /\ ~muts[m].ok /\ muts'[m].pc = "success") =>
               cache' = cache
      ]_vars

\* ==================================================== claims on SpecStore

\* C11: delete(id) removes the record with that identifier and leaves every
\* other record as it was; on an identifier that has no record it leaves the
\* store as it was and its promise does not resolve: it fails.
C11_DeleteOutcome ==
    [][ (result'.op = "delete" /\ now' # now) =>
          /\ DOMAIN store' = DOMAIN store \ {result'.id}
          /\ \A k \in DOMAIN store' : store'[k] = store[k]
          /\ result'.id \notin DOMAIN store => result'.out # "resolved"
      ]_vars

\* C12: update(id, partial) on an existing record stores the existing fields
\* overlaid with the partial, with synced = false, and keeps id, localOnly,
\* createdAt and every other record; on an absent identifier it fails with
\* 'Item not found', creates nothing and leaves the store as it was.
C12_UpdateLaw ==
    [][ (result'.op = "update" /\ now' # now) =>
          LET id == result'.id
              data == result'.data
          IN IF id \in DOMAIN store
               THEN /\ result'.out = "resolved"
                    /\ DOMAIN store' = DOMAIN store
                    /\ \A k \in DOMAIN store \ {id} : store'[k] = store[k]
                    /\ DOMAIN store'[id] = DOMAIN store[id]
                    /\ \A f \in DOMAIN data : store'[id][f] = data[f]
                    /\ \A f \in DOMAIN store[id] \ (DOMAIN data \cup {"updatedAt", "synced"}) :
                         store'[id][f] = store[id][f]
                    /\ store'[id].synced = FALSE
                    /\ store'[id].id = id
                    /\ store'[id].localOnly = store[id].localOnly
                    /\ store'[id].createdAt = store[id].createdAt
               ELSE /\ result'.out = "Item not found"
                    /\ store' = store
      ]_vars

\* An update of a record that had been marked synced, next to another record.
C12_Witness ==
    /\ result = Call("update", 1, [title |-> "Walk dog"], "resolved")
    /\ DOMAIN store = {1, 2}
    /\ store[1].title = "Walk dog"
    /\ ~store[1].synced /\ ~store[1].localOnly
    /\ store[1].updatedAt > store[1].createdAt
    /\ store[2].localOnly

\* C23: nothing guards against creating a record twice on the server. When
\* the POST of a record comes back without a 2xx response, also when the
\* server has committed it, the record stays synced = false, localOnly =
\* true; and a pass that reaches a record with an unacknowledged POST sends
\* POST for it again, whatever the server already holds.
C23_LostCreateIsPostedAgain ==
    [][\A s \in Slots : \A k \in DOMAIN store :
         /\ ( /\ passes[s].pc = "wait"
              /\ passes'[s] # passes[s]
              /\ passes[s].work[passes[s].i].id = k
              /\ passes[s].req = "POST"
              /\ ~passes[s].ok
              /\ k \in DOMAIN store' )
              => ~store'[k].synced /\ store'[k].localOnly
         /\ ( /\ passes'[s].pc = "wait"
              /\ passes'[s] # passes[s]
              /\ passes'[s].work[passes'[s].i].id = k
              /\ hist[k].posts > 0
              /\ ~hist[k].ok )
              => /\ passes'[s].req = "POST"
                 /\ hist'[k].posts = hist[k].posts + 1
      ]_vars

\* The server holds two records made from local record 1: its first POST was
\* committed and the answer lost, and a later pass posted it again.
C23_Witness ==
    /\ Cardinality({r \in server : r.origin = 1}) = 2
    /\ hist[1].posts = 2
    /\ 1 \in DOMAIN store

\* ------------------------------------------------- claims about SpecLate
WorkIds(pass) == {pass.work[j].id : j \in 1..Len(pass.work)}

\* C21: a pass issues requests only for the records that were in the
\* unsynced set when it read it: the list it iterates never changes while
\* it runs, every record with a request in the pass is on that list, and a
\* record that is not on it is left untouched by the pass and, when no
\* request was ever sent for it, is still synced = false, localOnly = true
\* when the pass ends.
C21_PassUsesItsSnapshot ==
    [][\A s \in Slots :
         /\ passes[s].pc = "wait" /\ passes'[s].pc = "wait"
              => passes'[s].work = passes[s].work
         /\ passes'[s].pc = "wait"
              => \A k \in DOMAIN hist' :
                    hist'[k].inPass > 0 => k \in WorkIds(passes'[s])
         /\ passes[s].pc = "wait"
              => \A k \in DOMAIN store \ WorkIds(passes[s]) :
                    /\ hist[k].inPass = 0
                    /\ store'[k] = store[k]
                    /\ hist[k].posts + hist[k].puts = 0
                         => ~store'[k].synced /\ store'[k].localOnly]_vars

\* A pass over record 1 is waiting for its answer and record 2, added since
\* the pass read the store, has no request.
C21_Witness ==
    \E s \in Slots :
        /\ passes[s].pc = "wait"
        /\ WorkIds(passes[s]) = {1}
        /\ 2 \in DOMAIN store
        /\ hist[2].inPass = 0
        /\ ~store[2].synced /\ store[2].localOnly

\* C27: the guard is always released. With every await of a pass settling
\* (the fairness of SpecLateFair), a manager that is Syncing is Idle again
\* later, with no pass left suspended, whether the requests succeeded, some
\* failed, or the read of the unsynced set was rejected.
C27_GuardReleased ==
    [](syncInProgress => <>(~syncInProgress /\ InFlight(passes) = {}))

\* A second pass has been admitted after a first one in which the request of
\* record 1 failed.
C27_Witness ==
    /\ syncCount = 2
    /\ syncInProgress
    /\ 1 \in DOMAIN store
    /\ hist[1].posts >= 1
    /\ ~hist[1].ok
    /\ ~store[1].synced

\* ---------------------------------------------- claims about SpecOverlap
\* C22: the records in the cached collection carry pairwise different
\* identifiers, so that an optimistic update or delete addressed to a
\* temporary identifier changes exactly one of them.
C22_TemporaryIdsDistinct ==
    cache.defined =>
      \A i, j \in 1..Len(cache.todos) : i # j => cache.todos[i].id # cache.todos[j].id

\* C28: when two mutations of a session have both ended in error while
\* online, the cached collection is the one that was cached before the first
\* of them: no optimistic change of a failed mutation is left.
C28_FailedMutationsLeaveNoTrace ==
    (mutCount = 2 /\ Cardinality({m \in Hooks : muts[m].pc = "error"}) = 2)
       => cache = Data(<<Todo(CanonicalId(0), "Buy milk", FALSE)>>)

\* ----------------------------------------------- claims about SpecShared
\* C29: a record that the create mutation has created on the server while
\* online gets no POST from a sync pass. In SpecShared every record of the
\* store was written by onSuccess of such a mutation.
C29_NoSecondCreateRequest ==
    \A k \in DOMAIN hist : hist[k].posts = 0

\* ------------------------------------------------ claims about SpecApply
\* The number of entries of a list before position j whose id is id.
Before(list, id, j) == Cardinality({i \in 1..(j - 1) : list[i].id = id})

SendCalled == now' # now /\ result'.op = "sendNotification"

\* C25: sendNotification called while no subscription is stored throws,
\* hands nothing to web push and leaves the subscription absent.
C25_SendWithoutSubscription ==
    [][(SendCalled /\ subscription = None) =>
         /\ result'.out = "throws"
         /\ pushCount' = pushCount
         /\ sending' = sending
         /\ subscription' = None
      ]_vars

\* A send was answered 410, which cleared the subscription, and the next
\* sendNotification has thrown with nothing stored.
C25_Witness ==
    /\ result = Call("sendNotification", NoId, None, "throws")
    /\ subscription = None
    /\ pushCount = 1
    /\ sending[1].pc = "done" /\ sending[1].status = 410

\* C26: when the push service answers a send with 410 or 404 the call
\* returns a failure and the stored subscription is cleared, so that
\* getSubscriptionStatus reports isSubscribed = false and sendNotification
\* throws until subscribeUser stores a subscription again; when the send
\* fails otherwise the call returns a failure and the stored subscription is
\* untouched, and a later sendNotification hands it to web push.
C26_ExpiredSubscriptionCleared ==
    [][ /\ \A s \in 1..MaxSends :
             (sending[s].pc = "wait" /\ sending'[s].pc = "done") =>
               LET status == sending'[s].status
               IN /\ status \in {410, 404} =>
                       /\ result'.op = "sendNotification"
                       /\ result'.out \notin {"success", "pending", "throws"}
                       /\ subscription' = None
                       /\ ~Status(subscription').isSubscribed
                  /\ status \notin {201, 410, 404} =>
                       /\ result'.op = "sendNotification"
                       /\ result'.out \notin {"success", "pending", "throws"}
                       /\ subscription' = subscription
        /\ (now' # now /\ result'.op = "getSubscriptionStatus") =>
             result'.data.isSubscribed = (subscription # None)
        /\ (subscription = None /\ subscription' # None) =>
             result'.op = "subscribeUser"
        /\ SendCalled =>
             IF subscription = None
               THEN result'.out = "throws"
               ELSE /\ pushCount' = pushCount + 1
                    /\ \E s \in 1..MaxSends :
                         /\ sending[s].pc = "idle"
                         /\ sending'[s].pc = "wait"
                         /\ sending'[s].sub = subscription
      ]_vars

\* A send was answered 404: the call has returned the 'expired' failure and
\* nothing is stored any more.
C26_Witness ==
    /\ result.op = "sendNotification"
    /\ result.out = "Subscription expired. Please subscribe again."
    /\ subscription = None
    /\ \E s \in 1..MaxSends : sending[s].pc = "done" /\ sending[s].status = 404

====
